---- MODULE Spec2Model ----
(***************************************************************************)
(* Model of the DataSync reconciliation engine (sync_engine.py) together   *)
(* with the parts of connection_manager.py it drives: the keyed fetch of   *)
(* target rows, the per-row diff classification, and the transactional     *)
(* apply with commit on success and rollback on error.                     *)
(*                                                                         *)
(* Python values are records [t, n, s]: None, an int, or a str given as a  *)
(* sequence of one-character strings.  Python dicts are TLA+ functions     *)
(* whose DOMAIN is the dict's key set; column_mapping, whose iteration     *)
(* order decides which source field wins a shared target column, is a      *)
(* sequence of <<excel_col, db_col>> pairs with distinct excel_col.        *)
(*                                                                         *)
(* The store is one table with columns DbCols and a primary key on "id".   *)
(* It keeps bound parameter values as they were sent.  The connection      *)
(* follows psycopg2: the first statement after a commit or rollback opens  *)
(* a transaction, which stays open until commit() or rollback().           *)
(***************************************************************************)
EXTENDS Integers, Sequences, FiniteSets, TLC

\* ---------------------------------------------------------------- bounds
MaxSourceRows == 2
MaxTargetRows == 1
MaxMappingLen == 2
MaxExternalWrites == 1
MaxSaves == 3

\* ---------------------------------------------------------- change types
CT_UNCHANGED == "UNCHANGED"
ADDED == "ADDED"
MODIFIED == "MODIFIED"

\* ------------------------------------------------------------------ values
Null == [t |-> "null", n |-> 0, s |-> <<>>]
IntV(i) == [t |-> "int", n |-> i, s |-> <<>>]
StrV(cs) == [t |-> "str", n |-> 0, s |-> cs]

NoName == "None"

EmptyDict == [x \in {} |-> Null]

Whitespace == {" ", "\t", "\n"}

DigitChar(d) == CASE d = 0 -> "0" [] d = 1 -> "1" [] d = 2 -> "2" [] d = 3 -> "3"
                  [] d = 4 -> "4" [] d = 5 -> "5" [] d = 6 -> "6" [] d = 7 -> "7"
                  [] d = 8 -> "8" [] OTHER -> "9"

RECURSIVE NatToStr(_)
NatToStr(i) == IF i < 10 THEN <<DigitChar(i)>>
               ELSE NatToStr(i \div 10) \o <<DigitChar(i % 10)>>

\* str(val) for a non-None value
PyStr(val) == IF val.t = "int"
              THEN (IF val.n < 0 THEN <<"-">> \o NatToStr(0 - val.n) ELSE NatToStr(val.n))
              ELSE val.s

RECURSIVE LStrip(_)
LStrip(cs) == IF cs # <<>> /\ Head(cs) \in Whitespace THEN LStrip(Tail(cs)) ELSE cs

RECURSIVE RStrip(_)
RStrip(cs) == IF cs # <<>> /\ cs[Len(cs)] \in Whitespace
              THEN RStrip(SubSeq(cs, 1, Len(cs) - 1)) ELSE cs

\* str.strip()
Strip(cs) == RStrip(LStrip(cs))

\* a decimal rendering without its zero fraction: "10.0" and "10.00" give "10"
RECURSIVE DropZeroFraction(_)
DropZeroFraction(cs) ==
    IF cs # <<>> /\ cs[Len(cs)] = "0" /\ \E i \in DOMAIN cs : cs[i] = "."
    THEN DropZeroFraction(SubSeq(cs, 1, Len(cs) - 1))
    ELSE IF cs # <<>> /\ cs[Len(cs)] = "."
    THEN SubSeq(cs, 1, Len(cs) - 1)
    ELSE cs

\* a variant of ValuesEqual that takes decimal renderings by their number
ValuesEqualNumeric(val1, val2) ==
    IF val1 = Null /\ val2 = Null THEN TRUE
    ELSE IF val1 = Null \/ val2 = Null THEN FALSE
    ELSE DropZeroFraction(Strip(PyStr(val1))) = DropZeroFraction(Strip(PyStr(val2)))

\* a variant of ValuesEqual that compares the renderings untrimmed
ValuesEqualNoStrip(val1, val2) ==
    IF val1 = Null /\ val2 = Null THEN TRUE
    ELSE IF val1 = Null \/ val2 = Null THEN FALSE
    ELSE PyStr(val1) = PyStr(val2)

\* SyncEngine._values_equal
ValuesEqual(val1, val2) ==
    IF val1 = Null /\ val2 = Null THEN TRUE
    ELSE IF val1 = Null \/ val2 = Null THEN FALSE
    ELSE Strip(PyStr(val1)) = Strip(PyStr(val2))

\* dict.get(key): None when the key is missing
Get(d, key) == IF key \in DOMAIN d THEN d[key] ELSE Null

\* ------------------------------------------------------ names and inputs
ExcelKeyCol == "k"
ExcelValueCols == {"x", "y"}
ExcelCols == {ExcelKeyCol} \cup ExcelValueCols
DbCols == {"id", "c1", "c2"}
PrimaryKey == "id"
SchemaName == "public"
TableName == "t"

KeyValues == {Null, IntV(1), IntV(2)}
SourceRowSet == {[k |-> kv, x |-> StrV(<<"1", "0">>), y |-> yv] :
                    kv \in KeyValues, yv \in {Null, StrV(<<" ", "a">>)}}
TargetRowSet == {[id |-> kv, c1 |-> v1, c2 |-> v2] :
                    kv \in {IntV(1)},
                    v1 \in {IntV(10), StrV(<<"a">>)},
                    v2 \in {StrV(<<"a">>)}}
ExternalValues == {StrV(<<"b">>)}

SeqsUpTo(S, n) == UNION {[1..m -> S] : m \in 0..n}

\* a sheet: rows in file order
Sources == SeqsUpTo(SourceRowSet, MaxSourceRows)

\* a table whose primary key is unique and not null
Targets == {tb \in SeqsUpTo(TargetRowSet, MaxTargetRows) :
               \A i, j \in DOMAIN tb : i < j => tb[i][PrimaryKey].n < tb[j][PrimaryKey].n}

\* what the mapping rows of the dialog can produce: a dict {excel_col: db_col}
MappingPairs == {<<"x", "c1">>, <<"y", "c1">>, <<"y", "c2">>}
Mappings == {m \in SeqsUpTo(MappingPairs, MaxMappingLen) :
                \A i, j \in DOMAIN m : i # j => m[i][1] # m[j][1]}
KeyExcelChoices == {ExcelKeyCol, ""}
KeyDbChoices == {PrimaryKey}

\* ------------------------------------------------------------------ state
VARIABLES
    connection,         \* ConnectionManager.connection is not None
    txn_status,         \* "idle" or "open": the connection's transaction
    target,             \* committed rows of the target table
    schema, table,      \* SyncEngine configuration
    key_column_excel, key_column_db, column_mapping,
    excel_rows,         \* ExcelReader.get_all_rows()
    has_diff, diff_data,\* the report the caller holds (None until a diff returns)
    last,               \* outcome of the engine call just made, NoCall otherwise
    phase,              \* "none", "diffed", "raced", "applied": how the held report
                        \* relates to target
    ext_writes,         \* writes by other sessions so far
    store_file,         \* saved_mappings.json: whether it exists, and its content
    store_last,         \* outcome of the MappingStore call just made
    saves,              \* save_mapping calls so far, the clock of created_at
    target_of,          \* the database whose table the variable target holds
    other_target,       \* the table of the same name in the other database
    diff_of,            \* the database the dialog's report was computed against
    table_selected,     \* comboTable.currentData() is not None
    mapping_rows,       \* what _get_column_mapping returns for the mapping rows
    ok_enabled,         \* the Execute Sync button is enabled
    preview_data,       \* PreviewModel._data
    dlg_last            \* outcome of the dialog handler just run

engine_vars == <<connection, txn_status, target, schema, table, key_column_excel,
                 key_column_db, column_mapping, excel_rows, has_diff, diff_data, last,
                 phase, ext_writes>>

store_vars == <<store_file, store_last, saves>>

dialog_vars == <<target_of, other_target, diff_of, table_selected, mapping_rows,
                 ok_enabled, preview_data, dlg_last>>

vars == <<engine_vars, store_vars, dialog_vars>>

\* --------------------------------------------------------- the diff engine
\* set(column_mapping.values())
MappingDbCols(mapping) == {mapping[i][2] : i \in DOMAIN mapping}

\* a variant of BuildExcelValues in which the first pair of a target column wins
RECURSIVE BuildExcelValuesFirstWins(_, _, _)
BuildExcelValuesFirstWins(excel_row, mapping, n) ==
    IF n = 0 THEN EmptyDict
    ELSE BuildExcelValuesFirstWins(excel_row, mapping, n - 1)
             @@ (mapping[n][2] :> Get(excel_row, mapping[n][1]))

\* generate_diff: excel_values, built pair by pair in dict order
RECURSIVE BuildExcelValues(_, _, _)
BuildExcelValues(excel_row, mapping, n) ==
    IF n = 0 THEN EmptyDict
    ELSE (mapping[n][2] :> Get(excel_row, mapping[n][1]))
             @@ BuildExcelValues(excel_row, mapping, n - 1)

\* fetch_records: the record built for one fetched row
FetchRow(row, key_column, value_columns) ==
    [c \in {key_column} \cup value_columns |-> row[c]]

\* fetch_records: records[key_value] = record, a later row replacing an earlier
RECURSIVE FetchRecords(_, _, _, _)
FetchRecords(tbl, key_column, value_columns, n) ==
    IF n = 0 THEN EmptyDict
    ELSE (tbl[n][key_column] :> FetchRow(tbl[n], key_column, value_columns))
             @@ FetchRecords(tbl, key_column, value_columns, n - 1)

\* the store rejects the SELECT: unconfigured identifiers or an unknown column
FetchQueryError == \/ schema # SchemaName
                   \/ table # TableName
                   \/ key_column_db \notin DbCols
                   \/ ~(MappingDbCols(column_mapping) \subseteq DbCols)

\* a variant of CompareColumns that records every mapped column
CompareColumnsAll(excel_values, db_record) ==
    [c \in DOMAIN excel_values
        |-> [excel |-> excel_values[c], db |-> Get(db_record, c)]]

\* generate_diff: the changes dict of a row whose key is in the database
CompareColumns(excel_values, db_record) ==
    [c \in {d \in DOMAIN excel_values :
                ~ValuesEqual(excel_values[d], Get(db_record, d))}
        |-> [excel |-> excel_values[c], db |-> Get(db_record, c)]]

\* a variant of ExistingItem that reports every existing row as MODIFIED
ExistingItemAlwaysModified(key_value, changes, excel_values) ==
    [change_type |-> MODIFIED, key_value |-> key_value,
     changes |-> changes, excel_values |-> excel_values]

\* generate_diff: the item appended for a row that has changes or none
ExistingItem(key_value, changes, excel_values) ==
    IF changes # EmptyDict
    THEN [change_type |-> MODIFIED, key_value |-> key_value,
          changes |-> changes, excel_values |-> excel_values]
    ELSE [change_type |-> CT_UNCHANGED, key_value |-> key_value]

\* generate_diff: the item appended for one row with a key
DiffItem(excel_row, key_value, db_records) ==
    LET excel_values == BuildExcelValues(excel_row, column_mapping, Len(column_mapping))
    IN  IF key_value \in DOMAIN db_records
        THEN ExistingItem(key_value,
                          CompareColumns(excel_values, db_records[key_value]),
                          excel_values)
        ELSE [change_type |-> ADDED, key_value |-> key_value,
              excel_values |-> excel_values]

\* a variant of DiffRows that does not skip rows without key
RECURSIVE DiffRowsKeepsNull(_, _, _)
DiffRowsKeepsNull(rows, db_records, n) ==
    IF n = 0 THEN <<>>
    ELSE Append(DiffRowsKeepsNull(rows, db_records, n - 1),
                DiffItem(rows[n], Get(rows[n], key_column_excel), db_records))

\* generate_diff: the loop over excel_rows, rows without key skipped
RECURSIVE DiffRows(_, _, _)
DiffRows(rows, db_records, n) ==
    IF n = 0 THEN <<>>
    ELSE LET key_value == Get(rows[n], key_column_excel)
         IN  IF key_value = Null
             THEN DiffRows(rows, db_records, n - 1)
             ELSE Append(DiffRows(rows, db_records, n - 1),
                         DiffItem(rows[n], key_value, db_records))

\* ------------------------------------------------------ the apply executor
\* the primary key of the table is unique and not null
PrimaryKeyValid(tbl) ==
    /\ \A i \in DOMAIN tbl : tbl[i][PrimaryKey] # Null
    /\ \A i, j \in DOMAIN tbl : i # j => tbl[i][PrimaryKey] # tbl[j][PrimaryKey]

\* _insert_record: INSERT INTO t (key, mapped columns...) VALUES (...)
InsertRecord(tbl, item) ==
    LET new_row == [c \in DbCols |->
                       IF c = key_column_db THEN item.key_value
                       ELSE Get(item.excel_values, c)]
        new_tbl == Append(tbl, new_row)
        rejected == \/ key_column_db \notin DbCols
                    \/ key_column_db \in DOMAIN item.excel_values
                    \/ ~PrimaryKeyValid(new_tbl)
    IN  [ok |-> ~rejected, tbl |-> IF rejected THEN tbl ELSE new_tbl]

\* a variant of UpdateRecord whose WHERE clause also asks that the changed
\* columns still hold the values the diff saw
UpdateRecordIfUnchanged(tbl, item) ==
    LET new_tbl == [i \in DOMAIN tbl |->
                       IF /\ tbl[i][key_column_db] = item.key_value
                          /\ \A c \in DOMAIN item.changes : tbl[i][c] = item.changes[c].db
                       THEN [c \in DbCols |->
                                IF c \in DOMAIN item.changes
                                THEN item.changes[c].excel ELSE tbl[i][c]]
                       ELSE tbl[i]]
        rejected == \/ key_column_db \notin DbCols
                    \/ item.changes = EmptyDict
                    \/ ~PrimaryKeyValid(new_tbl)
    IN  [ok |-> ~rejected, tbl |-> IF rejected THEN tbl ELSE new_tbl]

\* a variant of UpdateRecord whose statement the store accepts without SET list
UpdateRecordAcceptsEmpty(tbl, item) ==
    LET new_tbl == [i \in DOMAIN tbl |->
                       IF tbl[i][key_column_db] = item.key_value
                       THEN [c \in DbCols |->
                                IF c \in DOMAIN item.changes
                                THEN item.changes[c].excel ELSE tbl[i][c]]
                       ELSE tbl[i]]
        rejected == \/ key_column_db \notin DbCols
                    \/ ~PrimaryKeyValid(new_tbl)
    IN  [ok |-> ~rejected, tbl |-> IF rejected THEN tbl ELSE new_tbl]

\* a variant of UpdateRecord that writes every mapped column of the entry
UpdateRecordAllMapped(tbl, item) ==
    LET new_tbl == [i \in DOMAIN tbl |->
                       IF tbl[i][key_column_db] = item.key_value
                       THEN [c \in DbCols |->
                                IF c \in DOMAIN item.excel_values
                                THEN item.excel_values[c] ELSE tbl[i][c]]
                       ELSE tbl[i]]
        rejected == \/ key_column_db \notin DbCols
                    \/ item.changes = EmptyDict
                    \/ ~PrimaryKeyValid(new_tbl)
    IN  [ok |-> ~rejected, tbl |-> IF rejected THEN tbl ELSE new_tbl]

\* _update_record: UPDATE t SET changed columns WHERE key = key_value
UpdateRecord(tbl, item) ==
    LET new_tbl == [i \in DOMAIN tbl |->
                       IF tbl[i][key_column_db] = item.key_value
                       THEN [c \in DbCols |->
                                IF c \in DOMAIN item.changes
                                THEN item.changes[c].excel ELSE tbl[i][c]]
                       ELSE tbl[i]]
        rejected == \/ key_column_db \notin DbCols
                    \/ item.changes = EmptyDict
                    \/ ~PrimaryKeyValid(new_tbl)
    IN  [ok |-> ~rejected, tbl |-> IF rejected THEN tbl ELSE new_tbl]

\* execute_sync: changes = [d for d in diff_data if d['change_type'] in (ADDED, MODIFIED)]
FilterChanges(diff) == SelectSeq(diff, LAMBDA d : d.change_type \in {ADDED, MODIFIED})

\* a variant of ApplyItem that counts every statement as an insert
ApplyItemMiscounts(st, item, env_ok) ==
    LET res == IF item.change_type = ADDED THEN InsertRecord(st.tbl, item)
               ELSE UpdateRecord(st.tbl, item)
        ok == res.ok /\ env_ok
    IN  [tbl |-> IF ok THEN res.tbl ELSE st.tbl,
         inserted |-> IF ok THEN st.inserted + 1 ELSE st.inserted,
         updated |-> st.updated,
         failed |-> ~ok,
         log |-> Append(st.log, [op |-> IF item.change_type = ADDED THEN "insert" ELSE "update",
                                 key |-> item.key_value, ok |-> ok])]

\* execute_sync: one pass of the loop body, the statement and the counter
ApplyItem(st, item, env_ok) ==
    LET res == IF item.change_type = ADDED THEN InsertRecord(st.tbl, item)
               ELSE UpdateRecord(st.tbl, item)
        ok == res.ok /\ env_ok
    IN  [tbl |-> IF ok THEN res.tbl ELSE st.tbl,
         inserted |-> IF ok /\ item.change_type = ADDED THEN st.inserted + 1 ELSE st.inserted,
         updated |-> IF ok /\ item.change_type = MODIFIED THEN st.updated + 1 ELSE st.updated,
         failed |-> ~ok,
         log |-> Append(st.log, [op |-> IF item.change_type = ADDED THEN "insert" ELSE "update",
                                 key |-> item.key_value, ok |-> ok])]

\* a variant of ApplyChanges that goes on to the next entry after a failure
RECURSIVE ApplyChangesContinues(_, _, _, _)
ApplyChangesContinues(changes, i, st, fail_at) ==
    IF i > Len(changes) THEN st
    ELSE ApplyChangesContinues(changes, i + 1,
                               ApplyItem(st, changes[i], fail_at # i), fail_at)

\* execute_sync: the loop, left at the first statement that raises;
\* fail_at = i makes the store reject statement i for a reason of its own
RECURSIVE ApplyChanges(_, _, _, _)
ApplyChanges(changes, i, st, fail_at) ==
    IF i > Len(changes) \/ st.failed THEN st
    ELSE ApplyChanges(changes, i + 1, ApplyItem(st, changes[i], fail_at # i), fail_at)


\* a variant of NoChanges that never takes the early return
NoChangesNever(changes) == FALSE

\* execute_sync: if not changes
NoChanges(changes) == changes = <<>>

\* a variant of ConnRollback that keeps what the failed transaction wrote
ConnRollbackKeepsWork(before, working) == working

\* conn.rollback(): the rows are those of the transaction's start
ConnRollback(before, working) == before

\* conn.commit(): the transaction's rows become the table
ConnCommit(before, working) == working

\* a variant of NotConnected that lets execute_sync go on without a connection
NotConnectedIgnored(conn) == FALSE

\* execute_sync: if not conn
NotConnected(conn) == ~conn

\* execute_sync as a whole; fail_at = Len(changes) + 1 makes commit() raise
ExecuteSyncResult(conn, diff, tbl, txn, fail_at) ==
    LET changes == FilterChanges(diff)
        st == ApplyChanges(changes, 1,
                  [tbl |-> tbl, inserted |-> 0, updated |-> 0, failed |-> FALSE, log |-> <<>>],
                  fail_at)
        rollback == [op |-> "rollback", key |-> Null, ok |-> TRUE]
    IN  IF NotConnected(conn)
        THEN [success |-> FALSE, message |-> "Not connected to database",
              inserted |-> 0, updated |-> 0, log |-> <<>>, tbl |-> tbl, txn |-> txn]
        ELSE IF NoChanges(changes)
        THEN [success |-> TRUE, message |-> "No changes to apply",
              inserted |-> 0, updated |-> 0, log |-> <<>>, tbl |-> tbl, txn |-> txn]
        ELSE IF st.failed
        THEN [success |-> FALSE, message |-> "Sync failed",
              inserted |-> st.inserted, updated |-> st.updated,
              log |-> Append(st.log, rollback),
              tbl |-> ConnRollback(tbl, st.tbl), txn |-> "idle"]
        ELSE IF fail_at = Len(changes) + 1
        THEN [success |-> FALSE, message |-> "Sync failed",
              inserted |-> st.inserted, updated |-> st.updated,
              log |-> st.log \o <<[op |-> "commit", key |-> Null, ok |-> FALSE], rollback>>,
              tbl |-> ConnRollback(tbl, st.tbl), txn |-> "idle"]
        ELSE [success |-> TRUE, message |-> "Successfully applied changes",
              inserted |-> st.inserted, updated |-> st.updated,
              log |-> Append(st.log, [op |-> "commit", key |-> Null, ok |-> TRUE]),
              tbl |-> ConnCommit(tbl, st.tbl), txn |-> "idle"]

\* a variant of GetChangeSummary that counts a MODIFIED entry as added
RECURSIVE GetChangeSummaryMiscounts(_, _)
GetChangeSummaryMiscounts(diff, n) ==
    IF n = 0 THEN [added |-> 0, modified |-> 0, unchanged |-> 0]
    ELSE LET counts == GetChangeSummaryMiscounts(diff, n - 1)
         IN  IF diff[n].change_type \in {ADDED, MODIFIED}
             THEN [counts EXCEPT !.added = @ + 1]
             ELSE [counts EXCEPT !.unchanged = @ + 1]

\* SyncEngine.get_change_summary: the loop over the first n items
RECURSIVE GetChangeSummary(_, _)
GetChangeSummary(diff, n) ==
    IF n = 0 THEN [added |-> 0, modified |-> 0, unchanged |-> 0]
    ELSE LET counts == GetChangeSummary(diff, n - 1)
         IN  IF diff[n].change_type = ADDED
             THEN [counts EXCEPT !.added = @ + 1]
             ELSE IF diff[n].change_type = MODIFIED
             THEN [counts EXCEPT !.modified = @ + 1]
             ELSE [counts EXCEPT !.unchanged = @ + 1]

\* -------------------------------------------------------- the mapping store
\* saved_mappings.json does not exist
NoFile == [exists |-> FALSE, data |-> <<>>]

\* dict.get(name) when the name is missing: None
NotFound == [found |-> FALSE]

\* no MappingStore call has just been made
NoStoreCall == [op |-> "none", name |-> "", pre |-> NoFile, deleted |-> FALSE,
                loaded |-> NotFound, names |-> <<>>, args |-> <<>>]

\* _load_all: {} when there is no file, else what json.load reads; the records
\* hold only str, list of str and dict of str, which JSON writes and reads back
\* as they are, keys in insertion order
LoadAll(file) == IF ~file.exists THEN <<>> ELSE file.data

\* _save_all: the file is created or replaced by the dump of data
SaveAll(data) == [exists |-> TRUE, data |-> data]

\* the keys of a dict, in insertion order
DictKeys(data) == [i \in DOMAIN data |-> data[i].name]

\* name in data
DictHas(data, name) == \E i \in DOMAIN data : data[i].name = name

\* data.get(name)
DictGet(data, name) ==
    IF DictHas(data, name)
    THEN data[CHOOSE i \in DOMAIN data : data[i].name = name].rec
    ELSE NotFound

\* a variant of DictSet that adds an entry even when the name has one
DictSetAppends(data, name, rec) == Append(data, [name |-> name, rec |-> rec])

\* data[name] = rec: the entry of the name is replaced where it stands, a new
\* name goes to the end
DictSet(data, name, rec) ==
    IF DictHas(data, name)
    THEN [i \in DOMAIN data |->
             IF data[i].name = name THEN [name |-> name, rec |-> rec] ELSE data[i]]
    ELSE Append(data, [name |-> name, rec |-> rec])

\* del data[name]
DictDel(data, name) == SelectSeq(data, LAMBDA e : e.name # name)

\* save_mapping: the record stored under the name
MappingRecord(cfg, now) ==
    [table |-> cfg.table, key_excel |-> cfg.key_excel, key_db |-> cfg.key_db,
     column_mappings |-> cfg.column_mappings,
     excel_cols_required |-> cfg.excel_cols_required,
     db_cols_required |-> cfg.db_cols_required,
     created_at |-> now]

\* save_mapping
SaveMapping(file, name, cfg, now) ==
    SaveAll(DictSet(LoadAll(file), name, MappingRecord(cfg, now)))

\* load_mapping
LoadMapping(file, name) == DictGet(LoadAll(file), name)

\* delete_mapping: the returned flag and the file afterwards
DeleteMapping(file, name) ==
    LET data == LoadAll(file)
    IN  IF DictHas(data, name)
        THEN [deleted |-> TRUE, file |-> SaveAll(DictDel(data, name))]
        ELSE [deleted |-> FALSE, file |-> file]

\* list_all
ListAll(file) == DictKeys(LoadAll(file))

\* set(list)
SetOf(list) == {list[i] : i \in DOMAIN list}

\* a variant of IsCompatible that does not look at the target columns
IsCompatibleIgnoresDb(mapping, tbl, excel_cols, db_cols) ==
    /\ mapping.table = tbl
    /\ SetOf(mapping.excel_cols_required) \subseteq SetOf(excel_cols)

\* get_compatible_mappings: the three tests of the loop body
IsCompatible(mapping, tbl, excel_cols, db_cols) ==
    /\ mapping.table = tbl
    /\ SetOf(mapping.excel_cols_required) \subseteq SetOf(excel_cols)
    /\ SetOf(mapping.db_cols_required) \subseteq SetOf(db_cols)

\* get_compatible_mappings
GetCompatibleMappings(file, tbl, excel_cols, db_cols) ==
    DictKeys(SelectSeq(LoadAll(file),
                       LAMBDA e : IsCompatible(e.rec, tbl, excel_cols, db_cols)))

\* what the dialog's _save_mapping passes: the table as "schema.table", the key
\* columns, the mapping, and the key plus the mapped columns as required ones
StoreNames == {"m1", "m2"}
StoreTables == {"public.t", "public.u"}
StoreColumnMappings == {<<<<"x", "c1">>>>, <<<<"x", "c1">>, <<"y", "c2">>>>}
StoreConfig(tbl, mapping) ==
    [table |-> tbl, key_excel |-> ExcelKeyCol, key_db |-> PrimaryKey,
     column_mappings |-> mapping,
     excel_cols_required |-> <<ExcelKeyCol>> \o [i \in DOMAIN mapping |-> mapping[i][1]],
     db_cols_required |-> <<PrimaryKey>> \o [i \in DOMAIN mapping |-> mapping[i][2]]]
StoreConfigs == {StoreConfig(tbl, m) : tbl \in StoreTables, m \in StoreColumnMappings}

\* the columns the current sheet and the current table offer
AvailableExcelCols == {<<"k", "x">>, <<"k", "x", "y">>, <<"x", "y">>}
AvailableDbCols == {<<"id", "c1">>, <<"id", "c1", "c2">>, <<"c1", "c2">>}

\* -------------------------------------------------------- the preview model
\* the elements of a finite set in one fixed order; a dict's keys are walked in
\* insertion order, of which only the number of steps matters below
RECURSIVE SetToSeq(_)
SetToSeq(S) == IF S = {} THEN <<>>
               ELSE LET x == CHOOSE y \in S : TRUE
                    IN  <<x>> \o SetToSeq(S \ {x})

\* set_diff_data: the display rows of one item
PreviewRowsOf(item) ==
    IF item.change_type = CT_UNCHANGED THEN <<>>
    ELSE IF item.change_type = ADDED
    THEN LET cols == SetToSeq(DOMAIN item.excel_values)
         IN  [i \in DOMAIN cols |->
                 [key |-> item.key_value, column |-> cols[i],
                  excel_value |-> item.excel_values[cols[i]], db_value |-> Null,
                  change_type |-> ADDED]]
    ELSE LET cols == SetToSeq(DOMAIN item.changes)
         IN  [i \in DOMAIN cols |->
                 [key |-> item.key_value, column |-> cols[i],
                  excel_value |-> item.changes[cols[i]].excel,
                  db_value |-> item.changes[cols[i]].db,
                  change_type |-> MODIFIED]]

\* PreviewModel.set_diff_data: the loop over the first n items
RECURSIVE SetDiffData(_, _)
SetDiffData(diff, n) ==
    IF n = 0 THEN <<>>
    ELSE SetDiffData(diff, n - 1) \o PreviewRowsOf(diff[n])

\* PreviewModel.get_summary: the numbers of keys that have an ADDED row and of
\* keys that have a MODIFIED row
GetSummary(data) ==
    LET added_keys == {data[i].key : i \in {j \in DOMAIN data : data[j].change_type = ADDED}}
        modified_keys == {data[i].key :
                             i \in {j \in DOMAIN data : data[j].change_type = MODIFIED}}
    IN  [added |-> Cardinality(added_keys), modified |-> Cardinality(modified_keys),
         total_changes |-> Cardinality(added_keys) + Cardinality(modified_keys)]

\* --------------------------------------------------------------- the dialog
\* the PostgreSQL connections of the settings; both databases have a table
\* public.t with the same columns
DbNames == {"dbA", "dbB"}

\* no handler has just run
NoHandler == [op |-> "none", warned |-> FALSE, error |-> FALSE, raised |-> FALSE,
              held |-> FALSE, diffed |-> FALSE, summary_shown |-> FALSE,
              executed |-> FALSE, success |-> FALSE, applied_to |-> NoName]

\* DataSyncDialog.__init__ and _setup_ui: no engine, no report, nothing selected,
\* Execute Sync disabled
DialogNotOpen ==
    /\ target_of = "dbA"
    /\ other_target = <<>>
    /\ diff_of = NoName
    /\ table_selected = FALSE
    /\ mapping_rows = <<>>
    /\ ok_enabled = FALSE
    /\ preview_data = <<>>
    /\ dlg_last = NoHandler

\* summary[key] for every key a handler's text reads: KeyError unless all are
\* keys of the dict
KeyErrorIn(summary, keys) == ~(keys \subseteq DOMAIN summary)

\* the keys the summary text of _generate_preview reads
PreviewSummaryKeys == {"modified", "skipped", "unchanged"}

\* the keys the confirmation text of _execute_sync reads
ConfirmSummaryKeys == {"modified", "skipped"}

\* the mappings the rows of the dialog are set to
DialogMappings == {m \in Mappings : m # <<>> /\ m[1] = <<"x", "c1">>}

\* ----------------------------------------------------------------- actions
NoCall == [op |-> "none", raised |-> FALSE, success |-> FALSE, message |-> "",
           inserted |-> 0, updated |-> 0, log |-> <<>>, pre |-> <<>>, regen |-> FALSE,
           fetch_error |-> FALSE, classified |-> 0,
           summary |-> [added |-> 0, modified |-> 0, unchanged |-> 0],
           raced |-> FALSE, again |-> FALSE]

Init ==
    /\ connection = FALSE
    /\ txn_status = "idle"
    /\ target \in Targets
    /\ schema = NoName /\ table = NoName
    /\ key_column_excel = NoName /\ key_column_db = NoName
    /\ column_mapping = <<>>
    /\ excel_rows \in Sources
    /\ has_diff = FALSE /\ diff_data = <<>>
    /\ last = NoCall
    /\ phase = "none"
    /\ ext_writes = 0
    /\ store_file = NoFile /\ store_last = NoStoreCall /\ saves = 0
    /\ DialogNotOpen

\* ConnectionManager.connect: a new connection, no transaction yet
Connect ==
    /\ connection' = TRUE
    /\ txn_status' = "idle"
    /\ ~(connection /\ txn_status = "idle")
    /\ last' = NoCall
    /\ UNCHANGED <<target, schema, table, key_column_excel, key_column_db,
                   column_mapping, excel_rows, has_diff, diff_data, phase,
                   ext_writes>>
    /\ UNCHANGED <<store_vars, dialog_vars>>

\* ConnectionManager.disconnect
Disconnect ==
    /\ connection
    /\ connection' = FALSE
    /\ txn_status' = "idle"
    /\ last' = NoCall
    /\ UNCHANGED <<target, schema, table, key_column_excel, key_column_db,
                   column_mapping, excel_rows, has_diff, diff_data, phase,
                   ext_writes>>
    /\ UNCHANGED <<store_vars, dialog_vars>>

\* SyncEngine.configure
Configure(ke, kd, mapping) ==
    /\ schema = NoName
    /\ schema' = SchemaName
    /\ table' = TableName
    /\ key_column_excel' = ke
    /\ key_column_db' = kd
    /\ column_mapping' = mapping
    /\ phase' = "none"
    /\ last' = NoCall
    /\ UNCHANGED <<connection, txn_status, target, excel_rows, has_diff, diff_data,
                   ext_writes>>
    /\ UNCHANGED <<store_vars, dialog_vars>>

\* a variant of FetchLog that reads the key column and the value columns apart
FetchLogTwoQueries(conn, fetch_error) ==
    IF conn THEN <<[op |-> "select", key |-> Null, ok |-> ~fetch_error],
                   [op |-> "select", key |-> Null, ok |-> ~fetch_error]>>
    ELSE <<>>

\* fetch_records: the statements it sends, one SELECT of the key column and all
\* value columns, none without a connection
FetchLog(conn, fetch_error) ==
    IF conn THEN <<[op |-> "select", key |-> Null, ok |-> ~fetch_error]>>
    ELSE <<>>

\* a variant of FetchErrorPropagates in which the diff engine swallows the error
FetchErrorCaught(fetch_error) == FALSE

\* generate_diff: the fetch_records call is in no try block, its error leaves
\* generate_diff as it is
FetchErrorPropagates(fetch_error) == fetch_error

\* SyncEngine.generate_diff; fetch_fails: the store rejects the SELECT
GenerateDiff(fetch_fails) ==
    LET value_columns == MappingDbCols(column_mapping)
        fetch_error == ~connection \/ FetchQueryError \/ fetch_fails
        raised == FetchErrorPropagates(fetch_error)
        db_records == FetchRecords(target, key_column_db, value_columns, Len(target))
        report == DiffRows(excel_rows, db_records, Len(excel_rows))
    IN  /\ last' = [NoCall EXCEPT !.op = "generate_diff", !.raised = raised,
                        !.success = ~raised, !.pre = target,
                        !.regen = (~raised /\ phase = "applied"),
                        !.fetch_error = fetch_error,
                        !.classified = IF raised THEN 0 ELSE Len(report),
                        !.again = (last.op = "generate_diff" /\ ~last.raised),
                        !.log = FetchLog(connection, fetch_error)]
        /\ txn_status' = IF connection THEN "open" ELSE txn_status
        /\ IF raised
           THEN UNCHANGED <<has_diff, diff_data, phase>>
           ELSE /\ has_diff' = TRUE
                /\ diff_data' = report
                /\ phase' = "diffed"
        /\ UNCHANGED <<connection, target, schema, table, key_column_excel,
                       key_column_db, column_mapping, excel_rows, ext_writes>>
        /\ UNCHANGED <<store_vars, dialog_vars>>

\* SyncEngine.execute_sync on the report the caller holds
ExecuteSync(fail_at) ==
    /\ has_diff
    /\ LET res == ExecuteSyncResult(connection, diff_data, target, txn_status, fail_at)
       IN  /\ last' = [NoCall EXCEPT !.op = "execute_sync", !.success = res.success,
                           !.message = res.message, !.inserted = res.inserted,
                           !.updated = res.updated, !.log = res.log, !.pre = target,
                           !.raced = (phase = "raced")]
           /\ target' = res.tbl
           /\ txn_status' = res.txn
           /\ phase' = IF phase = "diffed"
                       THEN (IF res.success THEN "applied" ELSE "diffed")
                       ELSE IF phase = "raced" /\ ~res.success THEN "raced"
                       ELSE "none"
    /\ UNCHANGED <<connection, schema, table, key_column_excel, key_column_db,
                   column_mapping, excel_rows, has_diff, diff_data, ext_writes>>
    /\ UNCHANGED <<store_vars, dialog_vars>>

\* SyncEngine.get_change_summary on the report the caller holds
GetChangeSummaryCall ==
    /\ has_diff
    /\ last' = [NoCall EXCEPT !.op = "get_change_summary",
                               !.summary = GetChangeSummary(diff_data, Len(diff_data))]
    /\ UNCHANGED <<connection, txn_status, target, schema, table, key_column_excel,
                   key_column_db, column_mapping, excel_rows, has_diff, diff_data,
                   phase, ext_writes>>
    /\ UNCHANGED <<store_vars, dialog_vars>>

\* another session commits a new value into one row of the table
ExternalWrite(i, c, v) ==
    /\ ext_writes < MaxExternalWrites
    /\ i \in DOMAIN target
    /\ target[i][c] # v
    /\ target' = [target EXCEPT ![i][c] = v]
    /\ ext_writes' = ext_writes + 1
    /\ phase' = IF phase \in {"diffed", "raced"} THEN "raced" ELSE "none"
    /\ last' = NoCall
    /\ UNCHANGED <<connection, txn_status, schema, table, key_column_excel,
                   key_column_db, column_mapping, excel_rows, has_diff, diff_data>>
    /\ UNCHANGED <<store_vars, dialog_vars>>

\* ------------------------------------------------- mapping store actions
\* MappingStore.save_mapping
SaveMappingCall(name, cfg) ==
    /\ saves < MaxSaves
    /\ saves' = saves + 1
    /\ store_file' = SaveMapping(store_file, name, cfg, saves + 1)
    /\ store_last' = [NoStoreCall EXCEPT !.op = "save_mapping", !.name = name,
                                         !.pre = store_file, !.args = <<cfg>>]
    /\ UNCHANGED <<engine_vars, dialog_vars>>

\* MappingStore.load_mapping
LoadMappingCall(name) ==
    /\ store_last' = [NoStoreCall EXCEPT !.op = "load_mapping", !.name = name,
                                         !.pre = store_file,
                                         !.loaded = LoadMapping(store_file, name)]
    /\ UNCHANGED <<store_file, saves, engine_vars, dialog_vars>>

\* MappingStore.delete_mapping
DeleteMappingCall(name) ==
    LET res == DeleteMapping(store_file, name)
    IN  /\ store_file' = res.file
        /\ store_last' = [NoStoreCall EXCEPT !.op = "delete_mapping", !.name = name,
                                             !.pre = store_file,
                                             !.deleted = res.deleted]
        /\ UNCHANGED <<saves, engine_vars, dialog_vars>>

\* MappingStore.list_all
ListAllCall ==
    /\ store_last' = [NoStoreCall EXCEPT !.op = "list_all", !.pre = store_file,
                                         !.names = ListAll(store_file)]
    /\ UNCHANGED <<store_file, saves, engine_vars, dialog_vars>>

\* MappingStore.get_compatible_mappings
GetCompatibleMappingsCall(tbl, excel_cols, db_cols) ==
    /\ store_last' = [NoStoreCall EXCEPT
                          !.op = "get_compatible_mappings", !.pre = store_file,
                          !.args = <<tbl, excel_cols, db_cols>>,
                          !.names = GetCompatibleMappings(store_file, tbl,
                                                          excel_cols, db_cols)]
    /\ UNCHANGED <<store_file, saves, engine_vars, dialog_vars>>

\* a new dialog: no engine yet, the store as the plugin directory has it
InitStore ==
    /\ connection = FALSE /\ txn_status = "idle" /\ target = <<>>
    /\ schema = NoName /\ table = NoName
    /\ key_column_excel = NoName /\ key_column_db = NoName
    /\ column_mapping = <<>> /\ excel_rows = <<>>
    /\ has_diff = FALSE /\ diff_data = <<>>
    /\ last = NoCall /\ phase = "none" /\ ext_writes = 0
    /\ store_file = NoFile /\ store_last = NoStoreCall /\ saves = 0
    /\ DialogNotOpen

NextStore ==
    \/ \E name \in StoreNames, cfg \in StoreConfigs : SaveMappingCall(name, cfg)
    \/ \E name \in StoreNames : LoadMappingCall(name)
    \/ \E name \in StoreNames : DeleteMappingCall(name)
    \/ ListAllCall
    \/ \E tbl \in StoreTables, excel_cols \in AvailableExcelCols,
          db_cols \in AvailableDbCols :
           GetCompatibleMappingsCall(tbl, excel_cols, db_cols)

SpecStore == InitStore /\ [][NextStore]_vars

Next ==
    \/ Connect
    \/ Disconnect
    \/ \E ke \in KeyExcelChoices, kd \in KeyDbChoices, m \in Mappings : Configure(ke, kd, m)
    \/ \E f \in BOOLEAN : GenerateDiff(f)
    \/ \E fail_at \in 0..(MaxSourceRows + 1) : ExecuteSync(fail_at)
    \/ GetChangeSummaryCall

Spec == Init /\ [][Next]_vars

NextRace ==
    \/ Next
    \/ \E i \in 1..(MaxTargetRows + MaxSourceRows), c \in {"c1", "c2"}, v \in ExternalValues :
           ExternalWrite(i, c, v)

\* a new engine in front of a table that has rows another session can write
InitRace ==
    /\ connection = FALSE
    /\ txn_status = "idle"
    /\ target \in Targets \ {<<>>}
    /\ schema = NoName /\ table = NoName
    /\ key_column_excel = NoName /\ key_column_db = NoName
    /\ column_mapping = <<>>
    /\ excel_rows \in SeqsUpTo({r \in SourceRowSet : r.k # Null}, MaxSourceRows - 1)
    /\ has_diff = FALSE /\ diff_data = <<>>
    /\ last = NoCall
    /\ phase = "none"
    /\ ext_writes = 0
    /\ store_file = NoFile /\ store_last = NoStoreCall /\ saves = 0
    /\ DialogNotOpen

SpecRace == InitRace /\ [][NextRace]_vars

\* ----------------------------------------------------------- dialog handlers
\* what generate_diff returns for the engine's configuration, the sheet and the
\* table of the connected database
GeneratedReport ==
    DiffRows(excel_rows,
             FetchRecords(target, key_column_db, MappingDbCols(column_mapping),
                          Len(target)),
             Len(excel_rows))

\* DataSyncDialog._connect_database: a new connection replaces the one held; the
\* first table is selected, which clears the mapping rows (no source field has
\* the name of a target column, so none is added again)
DlgConnectDatabase(db) ==
    /\ connection' = TRUE
    /\ txn_status' = "idle"
    /\ IF db = target_of
       THEN UNCHANGED <<target, other_target, target_of>>
       ELSE /\ target' = other_target
            /\ other_target' = target
            /\ target_of' = db
    /\ table_selected' = TRUE
    /\ mapping_rows' = <<>>
    /\ dlg_last' = [NoHandler EXCEPT !.op = "connect"]
    /\ last' = NoCall
    /\ phase' = "none"
    /\ UNCHANGED <<schema, table, key_column_excel, key_column_db, column_mapping,
                   excel_rows, has_diff, diff_data, ext_writes, diff_of, ok_enabled,
                   preview_data, store_vars>>

\* the mapping rows added, removed and set by the user
DlgSetMappingRows(m) ==
    /\ table_selected
    /\ mapping_rows # m
    /\ mapping_rows' = m
    /\ dlg_last' = [NoHandler EXCEPT !.op = "mapping"]
    /\ last' = NoCall
    /\ UNCHANGED <<connection, txn_status, target, schema, table, key_column_excel,
                   key_column_db, column_mapping, excel_rows, has_diff, diff_data,
                   phase, ext_writes, target_of, other_target, diff_of,
                   table_selected, ok_enabled, preview_data, store_vars>>

\* DataSyncDialog._generate_preview, run by the Preview button, which is enabled
\* when there are columns on both sides and a mapping row
DlgGeneratePreview(fetch_fails) ==
    /\ table_selected
    /\ mapping_rows # <<>>
    /\ schema' = SchemaName
    /\ table' = TableName
    /\ key_column_excel' = ExcelKeyCol
    /\ key_column_db' = PrimaryKey
    /\ column_mapping' = mapping_rows
    /\ UNCHANGED <<connection, target, excel_rows, ext_writes, target_of,
                   other_target, table_selected, mapping_rows, store_vars>>
    /\ txn_status' = IF connection THEN "open" ELSE txn_status
    /\ phase' = "none"
    /\ \E report \in {GeneratedReport'} :
       LET fetch_error == ~connection \/ fetch_fails
           raised == FetchErrorPropagates(fetch_error)
           summary == GetChangeSummary(report, Len(report))
           key_error == KeyErrorIn(summary, PreviewSummaryKeys)
       IN  /\ last' = [NoCall EXCEPT !.op = "generate_diff", !.raised = raised,
                           !.success = ~raised, !.pre = target,
                           !.fetch_error = fetch_error,
                           !.classified = IF raised THEN 0 ELSE Len(report),
                           !.log = FetchLog(connection, fetch_error)]
           /\ IF raised
              THEN /\ UNCHANGED <<has_diff, diff_data, diff_of, preview_data, ok_enabled>>
                   /\ dlg_last' = [NoHandler EXCEPT !.op = "preview", !.error = TRUE]
              ELSE /\ has_diff' = TRUE
                   /\ diff_data' = report
                   /\ diff_of' = target_of
                   /\ preview_data' = SetDiffData(report, Len(report))
                   /\ ok_enabled' = IF key_error THEN ok_enabled
                                    ELSE summary.modified > 0
                   /\ dlg_last' = [NoHandler EXCEPT !.op = "preview", !.diffed = TRUE,
                                                    !.error = key_error,
                                                    !.summary_shown = ~key_error]

\* DataSyncDialog._execute_sync, the slot of the button box's accepted signal;
\* yes: the answer to the confirmation question
DlgExecuteSync(yes, fail_at) ==
    LET held == has_diff /\ diff_data # <<>> /\ schema # NoName
        summary == GetChangeSummary(diff_data, Len(diff_data))
        key_error == KeyErrorIn(summary, ConfirmSummaryKeys)
        executed == held /\ ~key_error /\ yes
        res == ExecuteSyncResult(connection, diff_data, target, txn_status, fail_at)
    IN  /\ dlg_last' = [NoHandler EXCEPT !.op = "accept", !.held = held,
                                         !.raised = (held /\ key_error),
                                         !.executed = executed,
                                         !.success = (executed /\ res.success),
                                         !.applied_to = IF executed THEN target_of
                                                        ELSE NoName]
        /\ IF executed
           THEN /\ last' = [NoCall EXCEPT !.op = "execute_sync",
                                !.success = res.success, !.message = res.message,
                                !.inserted = res.inserted, !.updated = res.updated,
                                !.log = res.log, !.pre = target]
                /\ target' = res.tbl
                /\ txn_status' = res.txn
                /\ IF res.success
                   THEN /\ preview_data' = <<>>
                        /\ has_diff' = FALSE
                        /\ diff_data' = <<>>
                        /\ diff_of' = NoName
                        /\ ok_enabled' = FALSE
                   ELSE UNCHANGED <<preview_data, has_diff, diff_data, diff_of,
                                    ok_enabled>>
           ELSE /\ last' = NoCall
                /\ UNCHANGED <<target, txn_status, preview_data, has_diff, diff_data,
                               diff_of, ok_enabled>>
        /\ UNCHANGED <<connection, schema, table, key_column_excel, key_column_db,
                       column_mapping, excel_rows, phase, ext_writes, target_of,
                       other_target, table_selected, mapping_rows, store_vars>>

\* DataSyncDialog.closeEvent: the connection is closed, the dialog object and
\* all it holds stay for the next run
DlgClose ==
    /\ connection
    /\ connection' = FALSE
    /\ txn_status' = "idle"
    /\ dlg_last' = [NoHandler EXCEPT !.op = "close"]
    /\ last' = NoCall
    /\ UNCHANGED <<target, schema, table, key_column_excel, key_column_db,
                   column_mapping, excel_rows, has_diff, diff_data, phase,
                   ext_writes, target_of, other_target, diff_of, table_selected,
                   mapping_rows, ok_enabled, preview_data, store_vars>>

\* a new dialog with a sheet of keyed rows loaded; both databases have the
\* table, the second one has it empty
InitDialog ==
    /\ connection = FALSE
    /\ txn_status = "idle"
    /\ target \in Targets
    /\ schema = NoName /\ table = NoName
    /\ key_column_excel = NoName /\ key_column_db = NoName
    /\ column_mapping = <<>>
    /\ excel_rows \in SeqsUpTo({r \in SourceRowSet : r.k # Null}, MaxSourceRows)
    /\ has_diff = FALSE /\ diff_data = <<>>
    /\ last = NoCall
    /\ phase = "none"
    /\ ext_writes = 0
    /\ store_file = NoFile /\ store_last = NoStoreCall /\ saves = 0
    /\ target_of = "dbA"
    /\ other_target = <<>>
    /\ diff_of = NoName
    /\ table_selected = FALSE
    /\ mapping_rows = <<>>
    /\ ok_enabled = FALSE
    /\ preview_data = <<>>
    /\ dlg_last = NoHandler

NextDialog ==
    \/ \E db \in DbNames : DlgConnectDatabase(db)
    \/ \E m \in DialogMappings : DlgSetMappingRows(m)
    \/ \E f \in BOOLEAN : DlgGeneratePreview(f)
    \/ \E yes \in BOOLEAN, fail_at \in 0..(MaxSourceRows + 1) : DlgExecuteSync(yes, fail_at)
    \/ DlgClose

SpecDialog == InitDialog /\ [][NextDialog]_vars

\* ---------------------------------------------- the comparator on its own
\* the cell values the comparator is given: None, numbers, and texts with and
\* without surrounding whitespace
CmpValues == {Null, IntV(0), IntV(1), IntV(10), IntV(0 - 1),
              StrV(<<>>), StrV(<<" ">>), StrV(<<"a">>), StrV(<<"A">>),
              StrV(<<"1", "0">>), StrV(<<" ", "1", "0">>), StrV(<<"1", "0", " ">>),
              StrV(<<"\t", "1", "0", "\n">>), StrV(<<"1", " ", "0">>),
              StrV(<<"-", "1">>),
              StrV(<<"1", "0", ".", "0">>), StrV(<<"1", "0", ".", "0", "0">>)}

\* a connected, configured engine with one source row and its stored row, which
\* meet in one mapped column
InitCmp ==
    /\ connection = TRUE
    /\ txn_status = "idle"
    /\ \E b \in CmpValues :
           target = <<[id |-> IntV(1), c1 |-> b, c2 |-> StrV(<<"a">>)]>>
    /\ schema = SchemaName /\ table = TableName
    /\ key_column_excel = ExcelKeyCol /\ key_column_db = PrimaryKey
    /\ column_mapping = <<<<"x", "c1">>>>
    /\ \E a \in CmpValues :
           excel_rows = <<[k |-> IntV(1), x |-> a, y |-> Null]>>
    /\ has_diff = FALSE /\ diff_data = <<>>
    /\ last = NoCall
    /\ phase = "none"
    /\ ext_writes = 0
    /\ store_file = NoFile /\ store_last = NoStoreCall /\ saves = 0
    /\ DialogNotOpen

NextCmp == GenerateDiff(FALSE)

SpecCmp == InitCmp /\ [][NextCmp]_vars

\* ------------------------------------------- a report not made by the engine
\* reports a caller can hand to execute_sync that hold a MODIFIED entry without
\* changed columns, alone or after an ADDED entry
HandMadeReports ==
    LET empty_update == [change_type |-> MODIFIED, key_value |-> IntV(1),
                         changes |-> EmptyDict, excel_values |-> EmptyDict]
        added == [change_type |-> ADDED, key_value |-> IntV(2),
                  excel_values |-> ("c1" :> StrV(<<"a">>))]
    IN  {<<empty_update>>, <<added, empty_update>>}

\* a new engine whose caller holds a report of its own making
InitHand ==
    /\ connection = FALSE
    /\ txn_status = "idle"
    /\ target \in Targets
    /\ schema = NoName /\ table = NoName
    /\ key_column_excel = NoName /\ key_column_db = NoName
    /\ column_mapping = <<>>
    /\ excel_rows \in SeqsUpTo(SourceRowSet, MaxSourceRows - 1)
    /\ has_diff = TRUE /\ diff_data \in HandMadeReports
    /\ last = NoCall
    /\ phase = "none"
    /\ ext_writes = 0
    /\ store_file = NoFile /\ store_last = NoStoreCall /\ saves = 0
    /\ DialogNotOpen

SpecHand == InitHand /\ [][Next]_vars

\* ------------------------------------------------ vocabulary of the claims
\* the state right after a generate_diff call that returned a report
JustDiffed == last.op = "generate_diff" /\ ~last.raised

\* the state right after an execute_sync call
JustApplied == last.op = "execute_sync"

\* the source rows that have a key, in file order
KeyedRows == SelectSeq(excel_rows, LAMBDA r : Get(r, key_column_excel) # Null)

\* the key is the key of some row of the target table
KeyInTarget(key) == \E i \in DOMAIN target : target[i][key_column_db] = key

\* the (last) row of the target table that has the key
TargetRowOf(key) ==
    target[CHOOSE i \in DOMAIN target :
               /\ target[i][key_column_db] = key
               /\ \A j \in DOMAIN target : target[j][key_column_db] = key => j <= i]

\* the source field whose pair is the last one of the mapping for a target column
LastSourceField(c) ==
    column_mapping[CHOOSE i \in DOMAIN column_mapping :
                       /\ column_mapping[i][2] = c
                       /\ \A j \in DOMAIN column_mapping :
                              column_mapping[j][2] = c => j <= i][1]

\* the value a source row gives a mapped target column
Projected(r, c) == Get(r, LastSourceField(c))

StatementOps == {"insert", "update"}
Statements(log) == SelectSeq(log, LAMBDA e : e.op \in StatementOps)
OpCount(log, op) == Len(SelectSeq(log, LAMBDA e : e.op = op))
KindCount(diff, kind) == Len(SelectSeq(diff, LAMBDA d : d.change_type = kind))
StatementFailed == \E i \in DOMAIN last.log :
                       last.log[i].op \in StatementOps /\ ~last.log[i].ok
AllUnchanged(diff) == \A i \in DOMAIN diff : diff[i].change_type = CT_UNCHANGED

\* ------------------------------------------------------------------ claims
\* C1: when an insert or update statement of execute_sync fails, the call rolls
\* back instead of committing and the target table equals its state before the
\* call: no statement executed earlier in the call persists.
C1_Atomicity ==
    (JustApplied /\ StatementFailed) =>
        /\ target = last.pre
        /\ OpCount(last.log, "commit") = 0
        /\ OpCount(last.log, "rollback") = 1
        /\ ~last.success

\* a call whose second statement failed after its first had succeeded
C1_Witness ==
    /\ JustApplied
    /\ Len(last.log) >= 2
    /\ last.log[1].op \in StatementOps /\ last.log[1].ok
    /\ last.log[2].op \in StatementOps /\ ~last.log[2].ok

\* C2: after a successful execute_sync of the report of generate_diff, with no
\* other writer, generate_diff on the same source yields only UNCHANGED entries.
C2_Idempotence ==
    (last.op = "generate_diff" /\ last.regen) => AllUnchanged(diff_data)

\* C3: the report has one entry per source row with a non-null key, none for a
\* row with a null key, in source row order.
C3_ReportFollowsSource ==
    JustDiffed =>
        /\ Len(diff_data) = Len(KeyedRows)
        /\ \A i \in DOMAIN diff_data :
               diff_data[i].key_value = Get(KeyedRows[i], key_column_excel)

\* a report of a sheet that starts with a row without key
C3_Witness ==
    /\ JustDiffed
    /\ Len(excel_rows) = 2
    /\ Get(excel_rows[1], key_column_excel) = Null
    /\ Len(diff_data) = 1

\* C4 as stated: a keyed row is ADDED iff its key is absent from the target, and
\* an ADDED entry's mapped values hold, for every pair of the mapping, the row's
\* value of the pair's source field, under exactly the mapping's target columns.
C4_AddedProjectsEveryPair ==
    JustDiffed =>
        \A i \in DOMAIN diff_data :
            /\ diff_data[i].change_type = ADDED <=> ~KeyInTarget(diff_data[i].key_value)
            /\ diff_data[i].change_type = ADDED =>
                   /\ DOMAIN diff_data[i].excel_values = MappingDbCols(column_mapping)
                   /\ \A p \in DOMAIN column_mapping :
                          diff_data[i].excel_values[column_mapping[p][2]]
                              = Get(KeyedRows[i], column_mapping[p][1])

\* C4 amended: a keyed row is ADDED iff its key is absent from the target, and
\* an ADDED entry's mapped values hold, for every target column of the mapping,
\* the row's value of the last source field mapped to that column.
C4_AddedProjectsLastPair ==
    JustDiffed =>
        \A i \in DOMAIN diff_data :
            /\ diff_data[i].change_type = ADDED <=> ~KeyInTarget(diff_data[i].key_value)
            /\ diff_data[i].change_type = ADDED =>
                   /\ DOMAIN diff_data[i].excel_values = MappingDbCols(column_mapping)
                   /\ \A c \in MappingDbCols(column_mapping) :
                          diff_data[i].excel_values[c] = Projected(KeyedRows[i], c)

\* an ADDED entry under a mapping that sends two source fields to one column
C4_Witness ==
    /\ JustDiffed
    /\ Len(column_mapping) = 2
    /\ column_mapping[1][2] = column_mapping[2][2]
    /\ \E i \in DOMAIN diff_data :
           /\ diff_data[i].change_type = ADDED
           /\ Get(KeyedRows[i], column_mapping[1][1]) # Get(KeyedRows[i], column_mapping[2][1])

\* C5: a row whose key is in the target and whose every mapped value compares
\* equal to the stored value is UNCHANGED, and its entry carries neither changed
\* columns nor mapped values.
C5_EqualRowUnchanged ==
    JustDiffed =>
        \A i \in DOMAIN diff_data :
            ( /\ KeyInTarget(diff_data[i].key_value)
              /\ \A p \in DOMAIN column_mapping :
                     ValuesEqual(Get(KeyedRows[i], column_mapping[p][1]),
                                 TargetRowOf(diff_data[i].key_value)[column_mapping[p][2]]) )
            => /\ diff_data[i].change_type = CT_UNCHANGED
               /\ DOMAIN diff_data[i] = {"change_type", "key_value"}

\* an UNCHANGED entry whose text "10" met the stored number 10
C5_Witness ==
    /\ JustDiffed
    /\ \E p \in DOMAIN column_mapping : column_mapping[p] = <<"x", "c1">>
    /\ \E i \in DOMAIN diff_data :
           /\ diff_data[i].change_type = CT_UNCHANGED
           /\ KeyedRows[i].x = StrV(<<"1", "0">>)
           /\ TargetRowOf(diff_data[i].key_value).c1 = IntV(10)

\* C6: a MODIFIED entry has changed columns, exactly the mapped target columns
\* whose source value and stored value compare unequal, each with both values.
C6_ModifiedListsDifferences ==
    JustDiffed =>
        \A i \in DOMAIN diff_data :
            diff_data[i].change_type = MODIFIED =>
                LET stored == TargetRowOf(diff_data[i].key_value)
                    differing == {c \in MappingDbCols(column_mapping) :
                                     ~ValuesEqual(Projected(KeyedRows[i], c), stored[c])}
                IN  /\ differing # {}
                    /\ DOMAIN diff_data[i].changes = differing
                    /\ \A c \in differing :
                           diff_data[i].changes[c]
                               = [excel |-> Projected(KeyedRows[i], c), db |-> stored[c]]

\* a MODIFIED entry one of whose two mapped columns did not change
C6_Witness ==
    /\ JustDiffed
    /\ \E i \in DOMAIN diff_data :
           /\ diff_data[i].change_type = MODIFIED
           /\ Cardinality(DOMAIN diff_data[i].changes) = 1
           /\ Cardinality(MappingDbCols(column_mapping)) = 2

\* C7: with an empty field mapping or a missing key column generate_diff
\* refuses and the fetch of target rows is never called.
C7_BadConfigRefused ==
    ( /\ last.op = "generate_diff"
      /\ schema = SchemaName
      /\ (column_mapping = <<>> \/ key_column_excel \notin ExcelCols) )
    => (last.raised /\ OpCount(last.log, "select") = 0)

\* C8: when execute_sync returns, the connection's transaction has been ended,
\* and a failed statement is reported as a (False, message) result.
C8_TransactionEnded ==
    JustApplied =>
        /\ txn_status = "idle"
        /\ StatementFailed => (~last.raised /\ ~last.success)

\* C9 as stated: a report without ADDED and MODIFIED entries makes execute_sync
\* return success with "No changes to apply", run no statement, commit or
\* rollback, and leave the target table as it was.
C9_NoChangesNoOp ==
    (JustApplied /\ AllUnchanged(diff_data)) =>
        /\ last.success
        /\ last.message = "No changes to apply"
        /\ last.log = <<>>
        /\ target = last.pre

\* C9 amended: the same, when there is a connection; without one the call
\* returns failure with "Not connected to database", and touches nothing either.
C9_NoChangesNoOpConnected ==
    (JustApplied /\ AllUnchanged(diff_data)) =>
        /\ last.log = <<>>
        /\ target = last.pre
        /\ connection => (last.success /\ last.message = "No changes to apply")
        /\ ~connection => (~last.success /\ last.message = "Not connected to database")

\* a connected call on a report that has entries, all UNCHANGED
C9_Witness ==
    /\ JustApplied
    /\ connection
    /\ diff_data # <<>>
    /\ AllUnchanged(diff_data)
    /\ last.message = "No changes to apply"

\* every actionable entry's statement ran and none failed
AllStatementsDone ==
    /\ JustApplied
    /\ Statements(last.log) # <<>>
    /\ Len(Statements(last.log)) = Len(diff_data) - KindCount(diff_data, CT_UNCHANGED)
    /\ ~StatementFailed

\* C10 as stated: when every statement completes, execute_sync commits once,
\* after the last statement, and returns success with the counts of the ADDED
\* and of the MODIFIED entries.
C10_CommitAndCounts ==
    AllStatementsDone =>
        /\ OpCount(last.log, "commit") = 1
        /\ last.log[Len(last.log)].op = "commit"
        /\ last.success
        /\ last.inserted = KindCount(diff_data, ADDED)
        /\ last.updated = KindCount(diff_data, MODIFIED)

\* C10 amended: when every statement completes, execute_sync calls commit once,
\* right after the last statement; if the commit succeeds the call returns
\* success with the counts of the ADDED and of the MODIFIED entries, and if the
\* commit raises the call rolls back and returns failure.
C10_CommitOnceThenCounts ==
    AllStatementsDone =>
        LET n == Len(Statements(last.log))
        IN  /\ OpCount(last.log, "commit") = 1
            /\ \A i \in 1..n : last.log[i].op \in StatementOps
            /\ last.log[n + 1].op = "commit"
            /\ last.log[n + 1].ok =>
                   /\ Len(last.log) = n + 1
                   /\ last.success
                   /\ last.message = "Successfully applied changes"
                   /\ last.inserted = KindCount(diff_data, ADDED)
                   /\ last.updated = KindCount(diff_data, MODIFIED)
            /\ ~last.log[n + 1].ok =>
                   /\ Len(last.log) = n + 2
                   /\ last.log[n + 2].op = "rollback"
                   /\ ~last.success

\* a successful call that inserted one row and updated another
C10_Witness ==
    /\ AllStatementsDone
    /\ last.success
    /\ last.inserted = 1
    /\ last.updated = 1

\* C11: an error of the record store adapter during the fetch of generate_diff
\* propagates to the caller: no report is returned and no source row is
\* classified.
C11_FetchErrorPropagates ==
    (last.op = "generate_diff" /\ last.fetch_error) =>
        /\ last.raised
        /\ ~last.success
        /\ last.classified = 0

\* a fetch whose SELECT the store rejected, on a sheet with a keyed row
C11_Witness ==
    /\ last.op = "generate_diff"
    /\ last.fetch_error
    /\ connection
    /\ last.log = <<[op |-> "select", key |-> Null, ok |-> FALSE]>>
    /\ KeyedRows # <<>>

\* C12: without a connection fetch_records raises before any query and
\* execute_sync returns the missing connection without any statement; neither
\* is attempted again.
C12_NoConnectionSurfaced ==
    /\ (last.op = "generate_diff" /\ ~connection) =>
           (last.raised /\ last.fetch_error /\ last.log = <<>>)
    /\ (JustApplied /\ ~connection) =>
           /\ ~last.success
           /\ last.message = "Not connected to database"
           /\ last.log = <<>>
           /\ target = last.pre

\* an execute_sync without connection on a report that has actionable entries
C12_Witness ==
    /\ JustApplied
    /\ ~connection
    /\ FilterChanges(diff_data) # <<>>
    /\ last.message = "Not connected to database"

\* C13: the comparator is true for two nulls, false for exactly one null, and
\* otherwise true exactly when the trimmed string renderings are identical; the
\* text "10" equals the number 10, and a row that differs only so is UNCHANGED;
\* the relation is symmetric and reflexive.
C13_Comparator ==
    JustDiffed =>
        LET a == excel_rows[1].x
            b == target[1].c1
            same == \/ a = Null /\ b = Null
                    \/ a # Null /\ b # Null /\ Strip(PyStr(a)) = Strip(PyStr(b))
        IN  /\ ValuesEqual(a, b) = same
            /\ (diff_data[1].change_type = CT_UNCHANGED) = same
            /\ ValuesEqual(StrV(<<"1", "0">>), IntV(10))
            /\ ValuesEqual(a, b) = ValuesEqual(b, a)
            /\ ValuesEqual(a, a) /\ ValuesEqual(b, b)

\* the text "10" with a trailing blank met the stored number 10: UNCHANGED
C13_Witness ==
    /\ JustDiffed
    /\ excel_rows[1].x = StrV(<<"1", "0", " ">>)
    /\ target[1].c1 = IntV(10)
    /\ diff_data[1].change_type = CT_UNCHANGED

\* C14: get_change_summary returns the numbers of ADDED, MODIFIED and UNCHANGED
\* entries of the report, which add up to the report's length, and the call
\* changes neither the report nor the engine nor the store.
C14_SummaryIsPure ==
    [][ last'.op = "get_change_summary" =>
            /\ last'.summary.added = KindCount(diff_data, ADDED)
            /\ last'.summary.modified = KindCount(diff_data, MODIFIED)
            /\ last'.summary.unchanged = KindCount(diff_data, CT_UNCHANGED)
            /\ last'.summary.added + last'.summary.modified + last'.summary.unchanged
                   = Len(diff_data)
            /\ UNCHANGED <<has_diff, diff_data, schema, table, key_column_excel,
                           key_column_db, column_mapping, excel_rows, connection,
                           txn_status, target>> ]_vars

\* the summary of a report with one MODIFIED and one UNCHANGED entry
C14_Witness ==
    /\ last.op = "get_change_summary"
    /\ Len(diff_data) = 2
    /\ last.summary = [added |-> 0, modified |-> 1, unchanged |-> 1]

\* the names stored in the mapping file
StoredNames(file) == SetOf(DictKeys(file.data))

\* C15: get_compatible_mappings returns the name of a saved mapping if and only
\* if its recorded table equals the current table, its required source fields
\* are among the available source fields and its required target columns are
\* among the available target columns.
C15_CompatibleIffRule ==
    store_last.op = "get_compatible_mappings" =>
        LET tbl == store_last.args[1]
            excel_cols == store_last.args[2]
            db_cols == store_last.args[3]
        IN  /\ SetOf(store_last.names) \subseteq StoredNames(store_file)
            /\ \A i \in DOMAIN store_file.data :
                   LET e == store_file.data[i]
                   IN  e.name \in SetOf(store_last.names) <=>
                           /\ e.rec.table = tbl
                           /\ \A c \in SetOf(e.rec.excel_cols_required) :
                                  \E j \in DOMAIN excel_cols : excel_cols[j] = c
                           /\ \A c \in SetOf(e.rec.db_cols_required) :
                                  \E j \in DOMAIN db_cols : db_cols[j] = c

\* two mappings of the current table, one of which needs a column the table
\* does not offer: only the other is returned
C15_Witness ==
    /\ store_last.op = "get_compatible_mappings"
    /\ Len(store_file.data) = 2
    /\ \A i \in DOMAIN store_file.data : store_file.data[i].rec.table = store_last.args[1]
    /\ \A i \in DOMAIN store_file.data :
           SetOf(store_file.data[i].rec.excel_cols_required) \subseteq SetOf(store_last.args[2])
    /\ Len(store_last.names) = 1

\* C16: the store holds one record per name; load after save returns the fields
\* of the latest save; delete returns true exactly when the name was stored, and
\* afterwards load reports not-found and list_all omits the name; a save or
\* delete of one name leaves every other name's record as it was.
C16_OneRecordPerName ==
    /\ \A i, j \in DOMAIN store_file.data :
           store_file.data[i].name = store_file.data[j].name => i = j
    /\ store_last.op = "save_mapping" =>
           /\ LoadMapping(store_file, store_last.name)
                  = MappingRecord(store_last.args[1], saves)
           /\ store_last.name \in SetOf(ListAll(store_file))
           /\ \A n \in StoreNames \ {store_last.name} :
                  LoadMapping(store_file, n) = LoadMapping(store_last.pre, n)
    /\ store_last.op = "delete_mapping" =>
           /\ store_last.deleted = (store_last.name \in StoredNames(store_last.pre))
           /\ LoadMapping(store_file, store_last.name) = NotFound
           /\ store_last.name \notin SetOf(ListAll(store_file))
           /\ \A n \in StoreNames \ {store_last.name} :
                  LoadMapping(store_file, n) = LoadMapping(store_last.pre, n)
    /\ store_last.op = "load_mapping" =>
           store_last.loaded =
               IF store_last.name \in StoredNames(store_file)
               THEN store_file.data[CHOOSE i \in DOMAIN store_file.data :
                                       store_file.data[i].name = store_last.name].rec
               ELSE NotFound
    /\ store_last.op = "list_all" =>
           SetOf(store_last.names) = StoredNames(store_file)

\* a second save under a name replaced the first while another name is stored
C16_Witness ==
    /\ store_last.op = "save_mapping"
    /\ store_last.name \in StoredNames(store_last.pre)
    /\ Len(store_file.data) = 2
    /\ LoadMapping(store_last.pre, store_last.name).table
           # LoadMapping(store_file, store_last.name).table

\* C17: the statements of one execute_sync call are, in report order, those of a
\* prefix of the report's ADDED and MODIFIED entries: an insert for ADDED, an
\* update for MODIFIED, none for UNCHANGED, each once, and none after the first
\* statement that fails.
C17_StatementsArePrefix ==
    JustApplied =>
        LET stm == Statements(last.log)
            chg == FilterChanges(diff_data)
        IN  /\ Len(stm) <= Len(chg)
            /\ \A i \in DOMAIN stm :
                   /\ last.log[i] = stm[i]
                   /\ stm[i].key = chg[i].key_value
                   /\ stm[i].op = "insert" <=> chg[i].change_type = ADDED
                   /\ stm[i].op = "update" <=> chg[i].change_type = MODIFIED
                   /\ i < Len(stm) => stm[i].ok
            /\ (\A i \in DOMAIN stm : stm[i].ok) /\ connection => Len(stm) = Len(chg)

\* a report with two actionable entries whose first statement failed: one
\* statement only
C17_Witness ==
    /\ JustApplied
    /\ Len(FilterChanges(diff_data)) = 2
    /\ Len(Statements(last.log)) = 1
    /\ ~last.log[1].ok

\* C18: after a successful execute_sync the target table holds, for every ADDED
\* entry, a row with that key whose mapped columns equal the entry's mapped
\* values, and for every MODIFIED entry the row with that key has each changed
\* column set to the entry's source value.
C18_TargetHoldsReport ==
    (JustApplied /\ last.success) =>
        \A i \in DOMAIN diff_data :
            LET item == diff_data[i]
            IN  /\ item.change_type = ADDED =>
                       \E r \in DOMAIN target :
                           /\ target[r][key_column_db] = item.key_value
                           /\ \A c \in DOMAIN item.excel_values :
                                  target[r][c] = item.excel_values[c]
                /\ item.change_type = MODIFIED =>
                       /\ KeyInTarget(item.key_value)
                       /\ \A r \in DOMAIN target :
                              target[r][key_column_db] = item.key_value =>
                                  \A c \in DOMAIN item.changes :
                                      target[r][c] = item.changes[c].excel

\* C19: applying a MODIFIED entry changes only the columns listed in its changed
\* columns, on the rows that have its key: every other column of those rows,
\* also a mapped one that compared equal, and every row with another key, also
\* one inserted earlier in the call, stay as they were.
C19_UpdateFrame ==
    JustApplied =>
        /\ Len(target) >= Len(last.pre)
        /\ \A r \in DOMAIN last.pre :
               \A c \in DbCols :
                   target[r][c] # last.pre[r][c] =>
                       \E i \in DOMAIN diff_data :
                           /\ diff_data[i].change_type = MODIFIED
                           /\ diff_data[i].key_value = last.pre[r][key_column_db]
                           /\ c \in DOMAIN diff_data[i].changes
                           /\ target[r][c] = diff_data[i].changes[c].excel
        /\ \A r \in DOMAIN target \ DOMAIN last.pre :
               \E i \in DOMAIN diff_data :
                   /\ diff_data[i].change_type = ADDED
                   /\ diff_data[i].key_value = target[r][key_column_db]
                   /\ \A c \in DbCols \ {key_column_db} :
                          target[r][c] = Get(diff_data[i].excel_values, c)

\* a call that inserted one row and then updated one of two mapped columns of
\* another row, whose second mapped column had compared equal
C19_Witness ==
    /\ JustApplied /\ last.success
    /\ Len(last.log) = 3
    /\ last.log[1].op = "insert" /\ last.log[2].op = "update"
    /\ Cardinality(MappingDbCols(column_mapping)) = 2
    /\ Cardinality(DOMAIN diff_data[2].changes) = 1
    /\ \E c \in DOMAIN diff_data[2].excel_values :
           /\ c \notin DOMAIN diff_data[2].changes
           /\ diff_data[2].excel_values[c] # target[1][c]

\* C20: an update without changed columns is rejected by the store with a query
\* error, which fails the call; and no report of generate_diff has a MODIFIED
\* entry without changed columns, so execute_sync issues such an update only
\* for a report made elsewhere.
C20_EmptyUpdateRejected ==
    /\ JustDiffed =>
           \A i \in DOMAIN diff_data :
               diff_data[i].change_type = MODIFIED => diff_data[i].changes # EmptyDict
    /\ JustApplied =>
           \A i \in DOMAIN Statements(last.log) :
               LET item == FilterChanges(diff_data)[i]
               IN  (item.change_type = MODIFIED /\ item.changes = EmptyDict) =>
                       /\ ~last.log[i].ok
                       /\ ~last.success
                       /\ last.message = "Sync failed"
                       /\ target = last.pre
                       /\ diff_data \in HandMadeReports

\* on a configured engine the insert of a hand-made report went through and its
\* update without changed columns was rejected
C20_Witness ==
    /\ JustApplied
    /\ key_column_db = PrimaryKey
    /\ Len(last.log) = 3
    /\ last.log[1].op = "insert" /\ last.log[1].ok
    /\ last.log[2].op = "update" /\ ~last.log[2].ok
    /\ FilterChanges(diff_data)[2].changes = EmptyDict

\* C21: when another session has written a target row between generate_diff and
\* execute_sync, execute_sync neither reads the row again nor reports a
\* conflict: if the store accepts its statements it succeeds, and every changed
\* column of a MODIFIED entry holds a source value, whatever was written there.
C21_StaleOverwrite ==
    ( /\ JustApplied /\ last.raced /\ connection
      /\ \A e \in DOMAIN last.log : last.log[e].ok )
    => /\ last.success
       /\ last.message \in {"Successfully applied changes", "No changes to apply"}
       /\ OpCount(last.log, "select") = 0
       /\ \A i \in DOMAIN diff_data :
              diff_data[i].change_type = MODIFIED =>
                  \A r \in DOMAIN last.pre :
                      last.pre[r][key_column_db] = diff_data[i].key_value =>
                          \A c \in DOMAIN diff_data[i].changes :
                              \E j \in DOMAIN diff_data :
                                  /\ diff_data[j].change_type = MODIFIED
                                  /\ diff_data[j].key_value = diff_data[i].key_value
                                  /\ c \in DOMAIN diff_data[j].changes
                                  /\ target[r][c] = diff_data[j].changes[c].excel

\* a successful call that replaced a value another session had written after
\* the diff, which was neither the value the diff saw nor the source value
C21_Witness ==
    /\ JustApplied /\ last.raced /\ last.success
    /\ \E i \in DOMAIN diff_data :
           /\ diff_data[i].change_type = MODIFIED
           /\ \E r \in DOMAIN last.pre, c \in DOMAIN diff_data[i].changes :
                  /\ last.pre[r][key_column_db] = diff_data[i].key_value
                  /\ last.pre[r][c] # diff_data[i].changes[c].db
                  /\ last.pre[r][c] # diff_data[i].changes[c].excel
                  /\ target[r][c] = diff_data[i].changes[c].excel

\* C22: generate_diff sends one read query and no other statement, leaves the
\* target table, the source rows and the engine configuration as they were,
\* and keeps nothing from an earlier call: a call that follows another on the
\* same configuration, source and target returns an equal report.
C22_DiffReadsOnly ==
    [][ last'.op = "generate_diff" =>
            /\ UNCHANGED <<target, excel_rows, schema, table, key_column_excel,
                           key_column_db, column_mapping>>
            /\ \A e \in DOMAIN last'.log : last'.log[e].op = "select"
            /\ Len(last'.log) <= 1
            /\ ~last'.raised => Len(last'.log) = 1
            /\ (JustDiffed /\ ~last'.raised) =>
                   (last'.again /\ diff_data' = diff_data) ]_vars

\* a second generate_diff in a row returned a report with a MODIFIED entry
C22_Witness ==
    /\ JustDiffed
    /\ last.again
    /\ KindCount(diff_data, MODIFIED) >= 1

\* the texts "10", "10.0" and "10.00"
DecimalForms == {StrV(<<"1", "0">>), StrV(<<"1", "0", ".", "0">>),
                 StrV(<<"1", "0", ".", "0", "0">>)}

\* C23 as stated: "10", "10.0" and "10.00" compare equal to one another, and a
\* source row that differs from its target row only between these forms is
\* UNCHANGED.
C23_DecimalFormsEqual ==
    (JustDiffed /\ excel_rows[1].x \in DecimalForms /\ target[1].c1 \in DecimalForms) =>
        /\ ValuesEqual(excel_rows[1].x, target[1].c1)
        /\ diff_data[1].change_type = CT_UNCHANGED

\* C23 amended: "10", "10.0" and "10.00" are three different renderings: two of
\* them compare equal only when they are the same text, and a source row that
\* differs from its target row between these forms is MODIFIED in that column.
C23_DecimalFormsDiffer ==
    (JustDiffed /\ excel_rows[1].x \in DecimalForms /\ target[1].c1 \in DecimalForms) =>
        LET a == excel_rows[1].x
            b == target[1].c1
        IN  /\ ValuesEqual(a, b) <=> a = b
            /\ a = b => diff_data[1].change_type = CT_UNCHANGED
            /\ a # b =>
                   /\ diff_data[1].change_type = MODIFIED
                   /\ diff_data[1].changes = ("c1" :> [excel |-> a, db |-> b])

\* the source text "10" met the stored text "10.0": MODIFIED
C23_Witness ==
    /\ JustDiffed
    /\ excel_rows[1].x = StrV(<<"1", "0">>)
    /\ target[1].c1 = StrV(<<"1", "0", ".", "0">>)
    /\ diff_data[1].change_type = MODIFIED

\* the dialog's preview handler has just computed and stored a report
JustPreviewed == dlg_last.op = "preview" /\ dlg_last.diffed

\* the dialog's accept handler has just run with a stored, non-empty report and
\* a sync engine
JustAccepted == dlg_last.op = "accept" /\ dlg_last.held

\* C24 as stated: a preview of the dialog with a connection, a selected table
\* and a non-empty mapping, whose generate_diff raises nothing, ends without an
\* error: the change summary is displayed and Execute Sync is enabled exactly
\* when the report has a MODIFIED entry.
C24_PreviewCompletes ==
    JustPreviewed =>
        /\ ~dlg_last.error
        /\ dlg_last.summary_shown
        /\ ok_enabled <=> KindCount(diff_data, MODIFIED) >= 1

C27_SummariesAgree ==
    JustPreviewed =>
        /\ \A r \in DOMAIN preview_data : preview_data[r].change_type # CT_UNCHANGED
        /\ \A i \in DOMAIN diff_data :
               LET item == diff_data[i]
                   shown == IF item.change_type = ADDED THEN DOMAIN item.excel_values
                            ELSE IF item.change_type = MODIFIED THEN DOMAIN item.changes
                            ELSE {}
               IN  \A c \in shown :
                       \E r \in DOMAIN preview_data :
                           /\ preview_data[r].key = item.key_value
                           /\ preview_data[r].column = c
                           /\ preview_data[r].change_type = item.change_type
        /\ GetSummary(preview_data).added
               = GetChangeSummary(diff_data, Len(diff_data)).added
        /\ GetSummary(preview_data).modified
               = GetChangeSummary(diff_data, Len(diff_data)).modified

====
